---- MODULE Spec2Model ----
(***************************************************************************)
(* Dependency model, parser, flattener and package installer of            *)
(* cumulusci/core/dependencies/dependencies.py.                            *)
(*                                                                         *)
(* A declaration record (dep_dict) is a function from Keys to values; the  *)
(* string "None" stands for an absent key.  Python's Optional[bool] values *)
(* are the strings "None", "True" and "False".  A dependency instance is a *)
(* record of its pydantic field values plus a cls field naming its class.  *)
(***************************************************************************)
EXTENDS Integers, Sequences, FiniteSets, TLC

VARIABLES op, cls_arg, dep_dict, deps_arg, dep, repo, ret, calls, org, install_args

vars == <<op, cls_arg, dep_dict, deps_arg, dep, repo, ret, calls, org, install_args>>

\* ------------------------------------------------------------------ values

NONE == "None"

\* bool(v) of a str / Optional[bool] / None value
Truthy(v) == v \notin {NONE, "", "False"}

PyBool(b) == IF b THEN "True" ELSE "False"

Range(s) == {s[i] : i \in DOMAIN s}

\* the None dependency (a failed parse, an unset managed_dependency)
NoDep == [cls |-> NONE]

PNV == "PackageNamespaceVersionDependency"
PVI == "PackageVersionIdDependency"
UGR == "UnmanagedGitHubRefDependency"
ZIP == "UnmanagedZipURLDependency"
DYN == "GitHubDynamicDependency"
SUB == "GitHubDynamicSubfolderDependency"

StaticClasses == {PNV, PVI, UGR, ZIP}

DynamicClasses == {DYN, SUB}

\* ------------------------------------------------------ declaration records

Keys ==
    {"github", "repo_owner", "repo_name", "ref", "unmanaged", "namespace_inject",
     "namespace_strip", "skip", "subfolder", "zip_url", "namespace", "version",
     "version_id"}

URL == "https://github.com/o/n"

\* the raw skip value of a record: absent, one string, or a list of strings
SkipAbsent == [kind |-> "absent", v |-> <<>>]

SkipStr(s) == [kind |-> "str", v |-> <<s>>]

SkipList(l) == [kind |-> "list", v |-> l]

SkipInputs ==
    {SkipAbsent, SkipStr("unpackaged/pre/b"),
     SkipList(<<"unpackaged/post/c", "unpackaged/pre/a">>),
     SkipList(<<"a", "unpackaged/post">>)}

\* every record the parser is tried on
DepDicts ==
    [github : {NONE, URL}, repo_owner : {NONE, "o"}, repo_name : {NONE, "n"},
     ref : {NONE, "", "r"}, unmanaged : {NONE, "False", "True"},
     namespace_inject : {NONE, "inj"}, namespace_strip : {NONE, "str"},
     skip : {SkipAbsent, SkipStr("unpackaged/pre/b")},
     subfolder : {NONE, "sub"}, zip_url : {NONE, "https://z/a.zip"},
     namespace : {NONE, "ns"}, version : {NONE, "1.0"}, version_id : {NONE, "04t1"}]

EmptyDict ==
    [github |-> NONE, repo_owner |-> NONE, repo_name |-> NONE, ref |-> NONE,
     unmanaged |-> NONE, namespace_inject |-> NONE, namespace_strip |-> NONE,
     skip |-> SkipAbsent, subfolder |-> NONE, zip_url |-> NONE, namespace |-> NONE,
     version |-> NONE, version_id |-> NONE]

\* the key k is provided by the record d
Given(d, k) == IF k = "skip" THEN d[k].kind # "absent" ELSE d[k] # NONE

\* ------------------------------------------------------------ class schemas

\* the pydantic fields of each class (inherited ones included)
Fields(cls) ==
    CASE cls = PNV -> {"namespace", "version"}
      [] cls = PVI -> {"version_id"}
      [] cls = UGR -> {"unmanaged", "subfolder", "namespace_inject", "namespace_strip",
                       "repo_owner", "repo_name", "github", "ref"}
      [] cls = ZIP -> {"unmanaged", "subfolder", "namespace_inject", "namespace_strip",
                       "zip_url"}
      [] cls = DYN -> {"managed_dependency", "github", "repo_owner", "repo_name", "ref",
                       "unmanaged", "namespace_inject", "namespace_strip", "skip"}
      [] cls = SUB -> {"managed_dependency", "github", "repo_owner", "repo_name", "ref",
                       "subfolder", "namespace_inject", "namespace_strip"}

\* the fields declared without Optional and without a default
Required(cls) ==
    CASE cls = PNV -> {"namespace", "version"}
      [] cls = PVI -> {"version_id"}
      [] cls = UGR -> {"ref"}
      [] cls = ZIP -> {"zip_url"}
      [] cls = DYN -> {}
      [] cls = SUB -> {"subfolder"}

\* GitHubDynamicDependency.listify_skip, then the default [] of an absent skip
listify_skip(v) == v.v

\* the validated value of field k: the record's value, or the field's default
FieldValue(cls, k, d) ==
    CASE k = "managed_dependency" -> NoDep
      [] k = "skip" -> listify_skip(d[k])
      [] k = "unmanaged" /\ cls = DYN -> IF Given(d, k) THEN d[k] ELSE "False"
      [] OTHER -> d[k]

\* values.get(k)
Get(values, k) == IF k \in DOMAIN values THEN values[k] ELSE NONE

Pop(values, ks) == [k \in DOMAIN values \ ks |-> values[k]]

\* keys of the record that are no field of the class.  CCIModel, the pydantic
\* base class that decides what becomes of them, is not among the sources;
\* the specification has a record with namespace, version and ref parse as a
\* PackageNamespaceVersionDependency, so such keys do not reject a record.
ExtraKeys(cls, d) == {k \in Keys : Given(d, k) /\ k \notin Fields(cls)}

CCIModelAllows(cls, d) == ExtraKeys(cls, d) \subseteq Keys

\* --------------------------------------------------------------- validators

GithubUrl(owner, name) == "https://github.com/" \o owner \o "/" \o name

\* a variant of _validate_github_parameters whose assertion takes one half of
\* the pair for the whole pair
_validate_github_parameters_half(values) ==
    IF ~(Truthy(Get(values, "github")) \/ Truthy(Get(values, "repo_owner"))
         \/ Truthy(Get(values, "repo_name")))
    THEN [raised |-> TRUE, values |-> values]
    ELSE [raised |-> FALSE, values |-> values]

\* _validate_github_parameters: the assertion, then the pair made a URL.
\* raised: the AssertionError; values: the values the validator returns
_validate_github_parameters(values) ==
    IF ~(Truthy(Get(values, "github"))
         \/ (Truthy(Get(values, "repo_owner")) /\ Truthy(Get(values, "repo_name"))))
    THEN [raised |-> TRUE, values |-> values]
    ELSE IF ~Truthy(Get(values, "github")) /\ Truthy(Get(values, "repo_name"))
    THEN [raised |-> FALSE,
          values |-> Pop([values EXCEPT !["github"] =
                              GithubUrl(values["repo_owner"], values["repo_name"])],
                         {"repo_owner", "repo_name"})]
    ELSE [raised |-> FALSE, values |-> values]

\* BaseGitHubDependency.check_deprecated_fields only logs a warning
check_deprecated_fields(values) == [raised |-> FALSE, values |-> values]

\* a variant of check_complete that tests the ref for truth, not for None
check_complete_truthy(values) ==
    IF Truthy(values["ref"])
    THEN [raised |-> TRUE, values |-> values]
    ELSE _validate_github_parameters(values)

\* BaseGitHubDependency.check_complete
check_complete(values) ==
    IF values["ref"] # NONE
    THEN [raised |-> TRUE, values |-> values]
    ELSE _validate_github_parameters(values)

\* a variant of check_unmanaged_values that forgets namespace_strip
check_unmanaged_values_inject_only(values) ==
    IF ~Truthy(Get(values, "unmanaged")) /\ Truthy(Get(values, "namespace_inject"))
    THEN [raised |-> TRUE, values |-> values]
    ELSE [raised |-> FALSE, values |-> values]

\* GitHubDynamicDependency.check_unmanaged_values
check_unmanaged_values(values) ==
    IF ~Truthy(Get(values, "unmanaged"))
       /\ (Truthy(Get(values, "namespace_inject")) \/ Truthy(Get(values, "namespace_strip")))
    THEN [raised |-> TRUE, values |-> values]
    ELSE [raised |-> FALSE, values |-> values]

\* UnmanagedGitHubRefDependency.validate
UGR_validate(values) == _validate_github_parameters(values)

\* the root validators of a class, base classes first
RootValidators(cls) ==
    CASE cls = UGR -> <<"validate">>
      [] cls = DYN -> <<"check_deprecated_fields", "check_complete",
                        "check_unmanaged_values">>
      [] cls = SUB -> <<"check_deprecated_fields", "check_complete">>
      [] OTHER -> <<>>

RunValidator(name, values) ==
    CASE name = "validate" -> UGR_validate(values)
      [] name = "check_deprecated_fields" -> check_deprecated_fields(values)
      [] name = "check_complete" -> check_complete(values)
      [] name = "check_unmanaged_values" -> check_unmanaged_values(values)

\* the root validators run in turn, each on the values the last one returned;
\* one that raises adds an error and leaves the values as they were
RECURSIVE RunRootValidators(_, _, _)
RunRootValidators(names, i, acc) ==
    IF i > Len(names)
    THEN acc
    ELSE LET r == RunValidator(names[i], acc.values)
         IN RunRootValidators(names, i + 1,
                [errors |-> acc.errors \/ r.raised,
                 values |-> IF r.raised THEN acc.values ELSE r.values])

\* the fields whose validation fails: a required field the record lacks
FieldErrors(cls, d) == {k \in Required(cls) : ~Given(d, k)}

\* dependency_class.parse_obj(dep_dict).  ok: no pydantic.ValidationError;
\* dep: the instance
parse_obj(cls, d) ==
    LET values == [k \in Fields(cls) \ FieldErrors(cls, d) |-> FieldValue(cls, k, d)]
        r == RunRootValidators(RootValidators(cls), 1,
                               [errors |-> FALSE, values |-> values])
        ok == FieldErrors(cls, d) = {} /\ ~r.errors /\ CCIModelAllows(cls, d)
    IN [ok |-> ok,
        dep |-> IF ok
                THEN [k \in DOMAIN r.values \cup {"cls"} |->
                          IF k = "cls" THEN cls ELSE r.values[k]]
                ELSE NoDep]

\* ------------------------------------------------------------------- parser

\* a variant of the order of attempts with the dynamic variants tried first
DependencyClassesDynamicFirst == <<DYN, SUB, PNV, PVI, UGR, ZIP>>

\* a variant of the order of attempts with the static GitHub variant tried first
DependencyClassesGitHubFirst == <<UGR, PNV, PVI, ZIP, DYN, SUB>>

\* a variant of the list of attempts that lacks the static GitHub variant
DependencyClassesNoStaticGitHub == <<PNV, PVI, ZIP, DYN, SUB>>

\* the order in which parse_dependency attempts the classes
DependencyClasses == <<PNV, PVI, UGR, ZIP, DYN, SUB>>

RECURSIVE TryClasses(_, _)
TryClasses(d, i) ==
    IF i > Len(DependencyClasses)
    THEN NoDep
    ELSE LET r == parse_obj(DependencyClasses[i], d)
         IN IF r.ok THEN r.dep ELSE TryClasses(d, i + 1)

\* parse_dependency(dep_dict): the first class that parses the record, else None
parse_dependency(d) == TryClasses(d, 1)

\* a variant of parse_dependencies that drops the records it cannot parse
parse_dependencies_lenient(deps) ==
    [raised |-> NONE, culprit |-> EmptyDict,
     list |-> LET parsed == [i \in DOMAIN deps.v |-> parse_dependency(deps.v[i])]
                  Good(x) == x # NoDep
              IN SelectSeq(parsed, Good)]

RECURSIVE ParseLoop(_, _, _)
ParseLoop(deps, i, parsed_deps) ==
    IF i > Len(deps)
    THEN [raised |-> NONE, culprit |-> EmptyDict, list |-> parsed_deps]
    ELSE LET parsed == parse_dependency(deps[i])
         IN IF parsed = NoDep
            THEN [raised |-> "DependencyParseError", culprit |-> deps[i], list |-> <<>>]
            ELSE ParseLoop(deps, i + 1, Append(parsed_deps, parsed))

\* parse_dependencies(deps).  deps.isNone: the argument is None.  raised: the
\* exception (no list is returned then); culprit: the record its message names
parse_dependencies(deps) == ParseLoop(IF deps.isNone THEN <<>> ELSE deps.v, 1, <<>>)

\* ------------------------------------------------------- remote repository

\* what repo.directory_contents answers for a path: NotFoundError, or the
\* names of its entries in the order the hosting service lists them
NotFound == [found |-> FALSE, names |-> <<>>]

Dir(names) == [found |-> TRUE, names |-> names]

\* the directory names of the model, in lexicographic order
DirOrder == <<"a", "b", "c", "d", "x">>

\* sorted(contents.keys())
sorted(names) ==
    LET Listed(n) == n \in Range(names)
    IN SelectSeq(DirOrder, Listed)

\* a variant of sorted that keeps the order of the listing
sorted_unsorted(names) == names

PreDirs == {NotFound, Dir(<<>>), Dir(<<"a">>), Dir(<<"b", "a">>)}

SrcDirs == {NotFound, Dir(<<>>), Dir(<<"x">>)}

PostDirs == {NotFound, Dir(<<>>), Dir(<<"d", "c">>)}

\* the longest list of dependencies a remote cumulusci.yml declares
MaxDeclared == 2

\* the records a remote cumulusci.yml declares: a static dependency (the
\* metadata of unpackaged/pre/a of the repository, which flatten generates as
\* well), a dynamic GitHub dependency, and one that no class parses
DeclDicts ==
    {[EmptyDict EXCEPT !.github = URL, !.ref = "r", !.unmanaged = "True",
                       !.subfolder = "unpackaged/pre/a"],
     [EmptyDict EXCEPT !.github = "https://github.com/o/up"],
     [EmptyDict EXCEPT !.subfolder = "sub"]}

SeqsUpTo(S, n) == UNION {[1..k -> S] : k \in 0..n}

NoList == [isNone |-> TRUE, v |-> <<>>]

List(v) == [isNone |-> FALSE, v |-> v]

\* the remote project at the resolved ref: the namespace of its package
\* (get_package_data), its project__dependencies, and its directories
Repos ==
    [namespace : {NONE, "ns"},
     dependencies : {NoList} \cup {List(v) : v \in SeqsUpTo(DeclDicts, MaxDeclared)},
     pre : PreDirs, src : SrcDirs, post : PostDirs]

NoRepo ==
    [namespace |-> NONE, dependencies |-> NoList, pre |-> NotFound, src |-> NotFound,
     post |-> NotFound]

directory_contents(r, path) ==
    CASE path = "unpackaged/pre" -> r.pre
      [] path = "unpackaged/post" -> r.post
      [] path = "src" -> r.src

\* ---------------------------------------------------------------- flattener

\* a variant of is_resolved that takes every dependency for resolved
is_resolved_always(self) == TRUE

\* StaticDependency.is_resolved, BaseGitHubDependency.is_resolved
is_resolved(self) == IF self.cls \in StaticClasses THEN TRUE ELSE Truthy(self.ref)

\* StaticDependency.is_flattened, DynamicDependency.is_flattened
is_flattened(self) == self.cls \in StaticClasses

\* UnmanagedGitHubRefDependency(github=, ref=, subfolder=, unmanaged=,
\* namespace_inject=, namespace_strip=)
UnmanagedGitHubRef(github, ref, subfolder, unmanaged, namespace_inject, namespace_strip) ==
    parse_obj(UGR, [EmptyDict EXCEPT !.github = github, !.ref = ref,
                                     !.subfolder = subfolder, !.unmanaged = unmanaged,
                                     !.namespace_inject = namespace_inject,
                                     !.namespace_strip = namespace_strip]).dep

\* a variant of _flatten_unpackaged whose skip entries also match as the
\* parent folder or as the bare name of a subfolder
_flatten_unpackaged_loose_skip(self, r, subfolder, skip, managed, namespace) ==
    LET contents == directory_contents(r, subfolder)
        Kept(dirname) == /\ (subfolder \o "/" \o dirname) \notin Range(skip)
                         /\ subfolder \notin Range(skip)
                         /\ dirname \notin Range(skip)
        dirnames == SelectSeq(sorted(contents.names), Kept)
    IN IF contents.found /\ contents.names # <<>>
       THEN [i \in 1..Len(dirnames) |->
                UnmanagedGitHubRef(self.github, self.ref, subfolder \o "/" \o dirnames[i],
                    PyBool(~managed),
                    IF Truthy(namespace) /\ managed THEN namespace ELSE NONE,
                    IF Truthy(namespace) /\ ~managed THEN namespace ELSE NONE)]
       ELSE <<>>

\* a variant of _flatten_unpackaged that injects the namespace also when the
\* install is not managed
_flatten_unpackaged_inject_always(self, r, subfolder, skip, managed, namespace) ==
    LET contents == directory_contents(r, subfolder)
        Kept(dirname) == (subfolder \o "/" \o dirname) \notin Range(skip)
        dirnames == SelectSeq(sorted(contents.names), Kept)
    IN IF contents.found /\ contents.names # <<>>
       THEN [i \in 1..Len(dirnames) |->
                UnmanagedGitHubRef(self.github, self.ref, subfolder \o "/" \o dirnames[i],
                    PyBool(~managed),
                    IF Truthy(namespace) THEN namespace ELSE NONE,
                    IF Truthy(namespace) /\ ~managed THEN namespace ELSE NONE)]
       ELSE <<>>

\* a variant of _flatten_unpackaged that deploys the folder itself when it is
\* missing or empty
_flatten_unpackaged_whole_folder(self, r, subfolder, skip, managed, namespace) ==
    LET contents == directory_contents(r, subfolder)
        Kept(dirname) == (subfolder \o "/" \o dirname) \notin Range(skip)
        dirnames == SelectSeq(sorted(contents.names), Kept)
    IN IF contents.found /\ contents.names # <<>>
       THEN [i \in 1..Len(dirnames) |->
                UnmanagedGitHubRef(self.github, self.ref, subfolder \o "/" \o dirnames[i],
                    PyBool(~managed),
                    IF Truthy(namespace) /\ managed THEN namespace ELSE NONE,
                    IF Truthy(namespace) /\ ~managed THEN namespace ELSE NONE)]
       ELSE <<UnmanagedGitHubRef(self.github, self.ref, subfolder, PyBool(~managed),
                  NONE, NONE)>>

\* GitHubDynamicDependency._flatten_unpackaged
_flatten_unpackaged(self, r, subfolder, skip, managed, namespace) ==
    LET contents == directory_contents(r, subfolder)
        Kept(dirname) == (subfolder \o "/" \o dirname) \notin Range(skip)
        dirnames == SelectSeq(sorted(contents.names), Kept)
    IN IF contents.found /\ contents.names # <<>>
       THEN [i \in 1..Len(dirnames) |->
                UnmanagedGitHubRef(self.github, self.ref, subfolder \o "/" \o dirnames[i],
                    PyBool(~managed),
                    IF Truthy(namespace) /\ managed THEN namespace ELSE NONE,
                    IF Truthy(namespace) /\ ~managed THEN namespace ELSE NONE)]
       ELSE <<>>

\* a variant of the transitive step that keeps only the static declarations
transitive_dependencies_static(dependencies) ==
    LET parsed == [i \in DOMAIN dependencies.v |-> parse_dependency(dependencies.v[i])]
        Static(x) == x.cls \notin DynamicClasses
    IN SelectSeq(parsed, Static)

\* a variant of the transitive step that leaves out the records no class parses
transitive_dependencies_parsed_only(dependencies) ==
    LET parsed == [i \in DOMAIN dependencies.v |-> parse_dependency(dependencies.v[i])]
        Parsed(x) == x # NoDep
    IN SelectSeq(parsed, Parsed)

\* [parse_dependency(d) for d in dependencies], empty when the project
\* declares none
transitive_dependencies(dependencies) ==
    IF dependencies.isNone \/ dependencies.v = <<>>
    THEN <<>>
    ELSE [i \in DOMAIN dependencies.v |-> parse_dependency(dependencies.v[i])]

\* a variant of the managed decision that looks at the namespace only
is_managed_namespace_only(self, namespace) == Truthy(namespace)

\* the managed decision: bool(namespace and not self.unmanaged)
is_managed(self, namespace) == Truthy(namespace) /\ ~Truthy(self.unmanaged)

\* a variant of the src-or-package step that deploys src beside the package
src_or_package_with_src(self, r, managed) ==
    LET src == IF r.src.names # <<>>
               THEN <<UnmanagedGitHubRef(self.github, self.ref, "src", self.unmanaged,
                          self.namespace_inject, self.namespace_strip)>>
               ELSE <<>>
    IN IF ~managed
       THEN [raised |-> IF r.src.found THEN NONE ELSE "NotFoundError", list |-> src]
       ELSE IF self.managed_dependency = NoDep
            THEN [raised |-> "DependencyResolutionError", list |-> <<>>]
            ELSE [raised |-> NONE, list |-> src \o <<self.managed_dependency>>]

\* a variant of the src-or-package step that goes without a package when the
\* resolver recorded none
src_or_package_optional(self, r, managed) ==
    IF ~managed
    THEN IF ~r.src.found
         THEN [raised |-> "NotFoundError", list |-> <<>>]
         ELSE [raised |-> NONE,
               list |-> IF r.src.names # <<>>
                        THEN <<UnmanagedGitHubRef(self.github, self.ref, "src",
                                   self.unmanaged, self.namespace_inject,
                                   self.namespace_strip)>>
                        ELSE <<>>]
    ELSE [raised |-> NONE,
          list |-> IF self.managed_dependency = NoDep THEN <<>>
                   ELSE <<self.managed_dependency>>]

\* the src-or-package step.  raised: the exception it ends flatten with
src_or_package(self, r, managed) ==
    IF ~managed
    THEN IF ~r.src.found
         THEN [raised |-> "NotFoundError", list |-> <<>>]
         ELSE [raised |-> NONE,
               list |-> IF r.src.names # <<>>
                        THEN <<UnmanagedGitHubRef(self.github, self.ref, "src",
                                   self.unmanaged, self.namespace_inject,
                                   self.namespace_strip)>>
                        ELSE <<>>]
    ELSE IF self.managed_dependency = NoDep
         THEN [raised |-> "DependencyResolutionError", list |-> <<>>]
         ELSE [raised |-> NONE, list |-> <<self.managed_dependency>>]

\* a variant of the order of collection with unpackaged/post before the package
collect_deps_post_first(transitive, pre, mid, post) == transitive \o pre \o post \o mid

\* the list without the elements that occur earlier in it
RECURSIVE FirstOnly(_)
FirstOnly(l) ==
    IF l = <<>> THEN <<>>
    ELSE LET front == FirstOnly(SubSeq(l, 1, Len(l) - 1))
             last == l[Len(l)]
         IN IF \E i \in DOMAIN front : front[i] = last THEN front
            ELSE Append(front, last)

\* a variant of the collection that keeps the first occurrence of each element
collect_deps_first_only(transitive, pre, mid, post) ==
    FirstOnly(transitive \o pre \o mid \o post)

\* the order in which flatten extends deps
collect_deps(transitive, pre, mid, post) == transitive \o pre \o mid \o post

\* GitHubDynamicDependency.flatten.  raised: the exception; list: the list
\* returned; calls: the collaborators called, in order
GitHubDynamicDependency_flatten(self, r) ==
    IF ~is_resolved(self)
    THEN [raised |-> "DependencyResolutionError", list |-> <<>>, calls |-> <<>>]
    ELSE
    LET transitive == transitive_dependencies(r.dependencies)
        managed == is_managed(self, r.namespace)
        pre == _flatten_unpackaged(self, r, "unpackaged/pre", self.skip, FALSE, NONE)
        mid == src_or_package(self, r, managed)
        post == _flatten_unpackaged(self, r, "unpackaged/post", self.skip, managed,
                                    r.namespace)
        c1 == <<"get_repo", "get_remote_project_config", "get_package_data">>
        c2 == Append(c1, "directory_contents:unpackaged/pre")
        c3 == IF managed THEN c2 ELSE Append(c2, "directory_contents:src")
        c4 == Append(c3, "directory_contents:unpackaged/post")
    IN IF NoDep \in Range(transitive)
       THEN [raised |-> "DependencyResolutionError", list |-> <<>>, calls |-> c1]
       ELSE IF mid.raised # NONE
       THEN [raised |-> mid.raised, list |-> <<>>, calls |-> c3]
       ELSE [raised |-> NONE, list |-> collect_deps(transitive, pre, mid.list, post),
             calls |-> c4]

\* a variant of the subfolder flatten that leaves the namespace options behind
GitHubDynamicSubfolderDependency_flatten_bare(self) ==
    IF ~is_resolved(self)
    THEN [raised |-> "DependencyResolutionError", list |-> <<>>, calls |-> <<>>]
    ELSE [raised |-> NONE,
          list |-> <<UnmanagedGitHubRef(self.github, self.ref, self.subfolder, NONE,
                         NONE, NONE)>>,
          calls |-> <<>>]

\* GitHubDynamicSubfolderDependency.flatten
GitHubDynamicSubfolderDependency_flatten(self) ==
    IF ~is_resolved(self)
    THEN [raised |-> "DependencyResolutionError", list |-> <<>>, calls |-> <<>>]
    ELSE [raised |-> NONE,
          list |-> <<UnmanagedGitHubRef(self.github, self.ref, self.subfolder, NONE,
                         self.namespace_inject, self.namespace_strip)>>,
          calls |-> <<>>]

\* a variant of the default flatten that returns nothing
Dependency_flatten_nothing(self) == [raised |-> NONE, list |-> <<>>, calls |-> <<>>]

\* Dependency.flatten
Dependency_flatten(self) == [raised |-> NONE, list |-> <<self>>, calls |-> <<>>]

\* a variant of flatten that uses up the skip list of the receiver
receiver_after_flatten_skip_used(self, r) ==
    IF self.cls = DYN THEN [self EXCEPT !.skip = <<>>] ELSE self

\* the receiver after self.flatten(context): no statement of a flatten
\* assigns to a field of self, and self.skip is only read
receiver_after_flatten(self, r) == self

\* self.flatten(context), by the class of self
flatten(self, r) ==
    CASE self.cls = DYN -> GitHubDynamicDependency_flatten(self, r)
      [] self.cls = SUB -> GitHubDynamicSubfolderDependency_flatten(self)
      [] OTHER -> Dependency_flatten(self)

\* ----------------------------------------------------------------- resolver

\* the static dependency a resolver records as the release of a managed package
ManagedDep == parse_obj(PNV, [EmptyDict EXCEPT !.namespace = "ns", !.version = "1.0"]).dep

\* resolve_dependency(self, context, strategies) is no part of the sources: by the
\* specification it sets a non-null ref on the dependency, and the managed
\* dependency of a managed package flow, or fails with a resolution error
resolve_dependency(self, ref, managed_dependency) ==
    [self EXCEPT !.ref = ref, !.managed_dependency = managed_dependency]

\* ---------------------------------------------------------------- installer

\* the characters of the version strings of the model
Chars(v) ==
    CASE v = "1.2" -> <<"1", ".", "2">>
      [] v = "1.2 (Beta 3)" ->
            <<"1", ".", "2", " ", "(", "B", "e", "t", "a", " ", "3", ")">>
      [] v = "2.0 (Beta 10)" ->
            <<"2", ".", "0", " ", "(", "B", "e", "t", "a", " ", "1", "0", ")">>
      [] v = "1.0" -> <<"1", ".", "0">>

\* the string of a sequence of characters
RECURSIVE Str(_)
Str(cs) == IF cs = <<>> THEN "" ELSE Head(cs) \o Str(Tail(cs))

\* sub in s
Contains(s, sub) ==
    \E i \in 1..(Len(s) - Len(sub) + 1) : SubSeq(s, i, i + Len(sub) - 1) = sub

\* s.split(sep), sep one character
RECURSIVE split(_, _)
split(s, sep) ==
    IF \A i \in DOMAIN s : s[i] # sep
    THEN <<s>>
    ELSE LET i == CHOOSE k \in DOMAIN s :
                      s[k] = sep /\ \A j \in 1..(k - 1) : s[j] # sep
         IN <<SubSeq(s, 1, i - 1)>> \o split(SubSeq(s, i + 1, Len(s)), sep)

\* s.strip(ch)
RECURSIVE strip(_, _)
strip(s, ch) ==
    IF s # <<>> /\ Head(s) = ch THEN strip(Tail(s), ch)
    ELSE IF s # <<>> /\ s[Len(s)] = ch THEN strip(SubSeq(s, 1, Len(s) - 1), ch)
    ELSE s

\* a variant of the version of the installed check that is the version string
version_token_raw(self) == self.version

\* the version the installed check is made against: f"{version_string}b{beta}"
\* of a version with "Beta" in it, the version itself otherwise
version_token(self) ==
    LET v == Chars(self.version)
        parts == split(v, " ")
        version_string == parts[1]
        beta == strip(parts[Len(parts)], ")")
    IN IF Contains(v, <<"B", "e", "t", "a">>)
       THEN Str(version_string) \o "b" \o Str(beta)
       ELSE self.version

\* a variant of the installed version that is the beta token
install_version_token(self, version) == version

\* the version handed to install_package_by_namespace_version
install_version(self, version) == self.version

\* an org: its installed_packages, and the (namespace, version) pairs for which
\* has_minimum_package_version answers true
Namespaces == {"ns", "other"}

InstalledVersions ==
    {<<>>, <<[id |-> "04t1", version |-> "1.2"]>>,
     <<[id |-> "04t2", version |-> "1.2b3"], [id |-> "04t1", version |-> "1.2"]>>}

MinimumVersions == {"1.2", "1.2b3", "1.2 (Beta 3)", "2.0b10"}

Orgs ==
    [installed_packages : UNION {[S -> InstalledVersions] : S \in SUBSET Namespaces},
     minimum : SUBSET ({"ns"} \X MinimumVersions)]

NoOrg == [installed_packages |-> <<>>, minimum |-> {}]

has_minimum_package_version(o, namespace, version) ==
    <<namespace, version>> \in o.minimum

\* a variant of the installed versions that looks under one namespace only
installed_versions_one_namespace(o) ==
    UNION {Range(o.installed_packages[ns]) : ns \in DOMAIN o.installed_packages \cap {"ns"}}

\* itertools.chain(*org.installed_packages.values())
installed_versions(o) ==
    UNION {Range(o.installed_packages[ns]) : ns \in DOMAIN o.installed_packages}

\* the retry_options a caller passes: None, or a policy (a list of settings)
DEFAULT_PACKAGE_RETRY_OPTIONS == List(<<"DEFAULT_PACKAGE_RETRY_OPTIONS">>)

RetryInputs == {NoList, List(<<>>), List(<<"retries=3">>)}

OptionsInputs == {NONE, "options"}

\* a variant of the default of retry_options that replaces None only
retry_options_or_default_none_only(retry_options) ==
    IF retry_options.isNone THEN DEFAULT_PACKAGE_RETRY_OPTIONS ELSE retry_options

\* if not retry_options: retry_options = DEFAULT_PACKAGE_RETRY_OPTIONS
retry_options_or_default(retry_options) ==
    IF retry_options.isNone \/ retry_options.v = <<>>
    THEN DEFAULT_PACKAGE_RETRY_OPTIONS
    ELSE retry_options

\* if not options: options = PackageInstallOptions()
options_or_default(options) ==
    IF options = NONE THEN "PackageInstallOptions()" ELSE options

\* PackageNamespaceVersionDependency.install: the calls of the install
\* collaborator it makes
PackageNamespaceVersionDependency_install(self, o, options, retry_options) ==
    LET version == version_token(self)
    IN IF has_minimum_package_version(o, self.namespace, version)
       THEN <<>>
       ELSE <<[fn |-> "install_package_by_namespace_version",
               namespace |-> self.namespace,
               version |-> install_version(self, version),
               options |-> options_or_default(options),
               retry_options |-> retry_options_or_default(retry_options)]>>

\* PackageVersionIdDependency.install: the calls of the install collaborator
\* it makes
PackageVersionIdDependency_install(self, o, options, retry_options) ==
    IF \E v \in installed_versions(o) : self.version_id = v.id
    THEN <<>>
    ELSE <<[fn |-> "install_package_by_version_id",
            version_id |-> self.version_id,
            options |-> options_or_default(options),
            retry_options |-> retry_options_or_default(retry_options)]>>

\* self.install(context, org, options, retry_options) of a package dependency
install(self, o, options, retry_options) ==
    CASE self.cls = PNV ->
            PackageNamespaceVersionDependency_install(self, o, options, retry_options)
      [] self.cls = PVI ->
            PackageVersionIdDependency_install(self, o, options, retry_options)

\* a variant of _get_unmanaged that answers whether the namespace is installed
_get_unmanaged_installed(self, o) ==
    IF self.unmanaged = NONE
    THEN IF Truthy(self.namespace_inject)
         THEN PyBool(self.namespace_inject \in DOMAIN o.installed_packages)
         ELSE "True"
    ELSE self.unmanaged

\* UnmanagedDependency._get_unmanaged
_get_unmanaged(self, o) ==
    IF self.unmanaged = NONE
    THEN IF Truthy(self.namespace_inject)
         THEN PyBool(self.namespace_inject \notin DOMAIN o.installed_packages)
         ELSE "True"
    ELSE self.unmanaged

\* UnmanagedDependency.install: the calls it makes, the payload builder with
\* its options between the download of the zip and the deploy
UnmanagedDependency_install(self, o) ==
    <<[fn |-> "_get_zip_src"],
      [fn |-> "MetadataPackageZipBuilder.from_zipfile",
       options |-> [unmanaged |-> _get_unmanaged(self, o),
                    namespace_inject |-> self.namespace_inject,
                    namespace_strip |-> self.namespace_strip]],
      [fn |-> "ApiDeploy"]>>

\* MetadataPackageZipBuilder is no part of the sources.  With namespace_inject
\* among its options it replaces the namespace tokens of the metadata: by the
\* namespace prefix when unmanaged is false (the namespace is injected), by
\* nothing when unmanaged is true (the metadata is deployed raw)
namespace_injected(options) ==
    Truthy(options.namespace_inject) /\ options.unmanaged = "False"

\* The install collaborator and the org are no part of the sources.  By the
\* specification the collaborator records what it installs in the org: the
\* org then knows the version by its token (1.2b3 for "1.2 (Beta 3)") and
\* answers has_minimum_package_version for it, and lists the version id among
\* the installed packages of the namespace of the package
OrgVersion(version) ==
    CASE version = "1.2 (Beta 3)" -> "1.2b3"
      [] version = "2.0 (Beta 10)" -> "2.0b10"
      [] OTHER -> version

\* the orgs an org can be after the collaborator served the call
OrgsAfterCall(o, call) ==
    IF call.fn = "install_package_by_namespace_version"
    THEN {[o EXCEPT !.minimum = @ \cup {<<call.namespace, OrgVersion(call.version)>>}]}
    ELSE {[o EXCEPT !.installed_packages =
               [n \in DOMAIN @ \cup {ns} |->
                   (IF n \in DOMAIN @ THEN @[n] ELSE <<>>)
                   \o (IF n = ns THEN <<[id |-> call.version_id, version |-> "1.0"]>>
                       ELSE <<>>)]] : ns \in Namespaces}

\* the orgs an org can be after an install that made the calls
OrgsAfter(o, cs) == IF cs = <<>> THEN {o} ELSE OrgsAfterCall(o, cs[1])

\* ------------------------------------------------------------------ actions
\* One behaviour is one use of the module: a dependency is constructed, or a
\* record or a list of records parsed; a constructed dynamic dependency may
\* be resolved; the dependency is flattened, or a package dependency is
\* installed into an org.  op names the last call made.

AllClasses == Range(DependencyClasses)

Outcome(raised, d, list, culprit) ==
    [raised |-> raised, dep |-> d, list |-> list, culprit |-> culprit]

NoOutcome == Outcome(NONE, NoDep, <<>>, EmptyDict)

\* records of the GitHub variants
GitHubDicts ==
    {d \in DepDicts : d.zip_url = NONE /\ d.namespace = NONE /\ d.version = NONE
                      /\ d.version_id = NONE}

\* records of the dependencies that are flattened
FlattenDicts ==
    [github : {URL}, repo_owner : {NONE}, repo_name : {NONE}, ref : {NONE},
     unmanaged : {NONE, "True"}, namespace_inject : {NONE, "inj"},
     namespace_strip : {NONE, "str"}, skip : SkipInputs, subfolder : {NONE, "sub"},
     zip_url : {NONE}, namespace : {NONE}, version : {NONE}, version_id : {NONE}]
    \cup {[EmptyDict EXCEPT !.namespace = "ns", !.version = "1.0"],
          [EmptyDict EXCEPT !.version_id = "04t1"],
          [EmptyDict EXCEPT !.github = URL, !.ref = "r", !.subfolder = "sub"],
          [EmptyDict EXCEPT !.zip_url = "https://z/a.zip"]}

\* the longest list given to parse_dependencies
MaxBatch == 3

\* the records of the lists given to parse_dependencies
BatchDicts ==
    {[EmptyDict EXCEPT !.namespace = "ns", !.version = "1.0"],
     [EmptyDict EXCEPT !.github = URL],
     [EmptyDict EXCEPT !.github = URL, !.ref = "r"],
     [EmptyDict EXCEPT !.subfolder = "sub"],
     [EmptyDict EXCEPT !.repo_owner = "o"]}

\* the package and unmanaged dependencies that are installed
InstallDicts ==
    {[EmptyDict EXCEPT !.namespace = "ns", !.version = v] :
        v \in {"1.2", "1.2 (Beta 3)", "2.0 (Beta 10)"}}
    \cup {[EmptyDict EXCEPT !.version_id = id] : id \in {"04t1", "04t2", "04t3"}}
    \cup {[EmptyDict EXCEPT !.github = URL, !.ref = "r", !.subfolder = "sub",
                            !.unmanaged = u, !.namespace_inject = i,
                            !.namespace_strip = x] :
             u \in {NONE, "False", "True"}, i \in {NONE, "ns"}, x \in {NONE, "str"}}
    \cup {[EmptyDict EXCEPT !.zip_url = "https://z/a.zip", !.unmanaged = u,
                            !.namespace_inject = i] :
             u \in {NONE, "False", "True"}, i \in {NONE, "ns"}}

NoArgs == [options |-> NONE, retry_options |-> NoList]

Init ==
    /\ op = "init"
    /\ cls_arg = NONE
    /\ dep_dict = EmptyDict
    /\ deps_arg = NoList
    /\ dep = NoDep
    /\ repo = NoRepo
    /\ ret = NoOutcome
    /\ calls = <<>>
    /\ org = NoOrg
    /\ install_args = NoArgs

\* dependency_class.parse_obj(dep_dict), the construction of one class
Construct(D) ==
    /\ op = "init"
    /\ \E cls \in AllClasses, d \in D :
        LET r == parse_obj(cls, d)
        IN /\ op' = "construct"
           /\ cls_arg' = cls
           /\ dep_dict' = d
           /\ deps_arg' = NoList
           /\ dep' = r.dep
           /\ repo' = NoRepo
           /\ ret' = Outcome(IF r.ok THEN NONE ELSE "ValidationError", r.dep, <<>>,
                             EmptyDict)
           /\ calls' = <<>>
           /\ UNCHANGED <<org, install_args>>

ParseDependency ==
    /\ op = "init"
    /\ \E d \in DepDicts :
        /\ op' = "parse_dependency"
        /\ cls_arg' = NONE
        /\ dep_dict' = d
        /\ deps_arg' = NoList
        /\ dep' = parse_dependency(d)
        /\ repo' = NoRepo
        /\ ret' = Outcome(NONE, parse_dependency(d), <<>>, EmptyDict)
        /\ calls' = <<>>
        /\ UNCHANGED <<org, install_args>>

ParseDependencies ==
    /\ op = "init"
    /\ \E deps \in {NoList} \cup {List(v) : v \in SeqsUpTo(BatchDicts, MaxBatch)} :
        LET r == parse_dependencies(deps)
        IN /\ op' = "parse_dependencies"
           /\ cls_arg' = NONE
           /\ dep_dict' = EmptyDict
           /\ deps_arg' = deps
           /\ dep' = NoDep
           /\ repo' = NoRepo
           /\ ret' = Outcome(r.raised, NoDep, r.list, r.culprit)
           /\ calls' = <<>>
           /\ UNCHANGED <<org, install_args>>

\* self.resolve(context, strategies) on the dependency at hand
Resolve ==
    /\ op = "construct"
    /\ dep.cls \in DynamicClasses
    /\ op' = "resolve"
    /\ cls_arg' = NONE
    /\ dep_dict' = EmptyDict
    /\ deps_arg' = NoList
    /\ repo' = NoRepo
    /\ calls' = <<>>
    /\ UNCHANGED <<org, install_args>>
    /\ \/ /\ \E md \in IF dep.cls = DYN THEN {NoDep, ManagedDep} ELSE {NoDep} :
                dep' = resolve_dependency(dep, "r", md)
          /\ ret' = NoOutcome
       \/ /\ dep' = dep
          /\ ret' = Outcome("DependencyResolutionError", NoDep, <<>>, EmptyDict)

\* self.flatten(context) on the dependency at hand, against a remote repository
Flatten ==
    /\ op \in {"construct", "resolve"}
    /\ dep # NoDep
    /\ \E r \in Repos :
        LET f == flatten(dep, r)
        IN /\ op' = "flatten"
           /\ cls_arg' = NONE
           /\ dep_dict' = EmptyDict
           /\ deps_arg' = NoList
           /\ dep' = receiver_after_flatten(dep, r)
           /\ repo' = r
           /\ ret' = Outcome(f.raised, NoDep, f.list, EmptyDict)
           /\ calls' = f.calls
           /\ UNCHANGED <<org, install_args>>

Next == Construct(FlattenDicts) \/ Resolve \/ Flatten

Spec == Init /\ [][Next]_vars

NextParse == Construct(GitHubDicts) \/ ParseDependency \/ ParseDependencies

SpecParse == Init /\ [][NextParse]_vars

\* self.install(context, org, options, retry_options) on the package dependency
\* at hand
Install ==
    /\ op = "construct"
    /\ dep.cls \in {PNV, PVI}
    /\ \E o \in Orgs, options \in OptionsInputs, retry_options \in RetryInputs :
        /\ op' = "install"
        /\ cls_arg' = NONE
        /\ dep_dict' = EmptyDict
        /\ deps_arg' = NoList
        /\ dep' = dep
        /\ repo' = NoRepo
        /\ ret' = NoOutcome
        /\ calls' = install(dep, o, options, retry_options)
        /\ org' = o
        /\ install_args' = [options |-> options, retry_options |-> retry_options]

\* self.install(context, org) on the unmanaged dependency at hand
InstallUnmanaged ==
    /\ op = "construct"
    /\ dep.cls \in {UGR, ZIP}
    /\ \E o \in Orgs :
        /\ op' = "install"
        /\ cls_arg' = NONE
        /\ dep_dict' = EmptyDict
        /\ deps_arg' = NoList
        /\ dep' = dep
        /\ repo' = NoRepo
        /\ ret' = NoOutcome
        /\ calls' = UnmanagedDependency_install(dep, o)
        /\ org' = o
        /\ install_args' = NoArgs

\* a later self.install(context, org, options, retry_options) of the package
\* dependency at hand against the org the earlier installs left
InstallAgain ==
    /\ op \in {"install", "install_again"}
    /\ dep.cls \in {PNV, PVI}
    /\ \E o \in OrgsAfter(org, calls), options \in OptionsInputs,
          retry_options \in RetryInputs :
        /\ op' = "install_again"
        /\ cls_arg' = NONE
        /\ dep_dict' = EmptyDict
        /\ deps_arg' = NoList
        /\ dep' = dep
        /\ repo' = NoRepo
        /\ ret' = NoOutcome
        /\ calls' = install(dep, o, options, retry_options)
        /\ org' = o
        /\ install_args' = [options |-> options, retry_options |-> retry_options]

NextInstall == Construct(InstallDicts) \/ Install \/ InstallUnmanaged \/ InstallAgain

SpecInstall == Init /\ [][NextInstall]_vars

\* ------------------------------------------------------------------- claims

\* the number of dependencies the remote project declares
Declared == IF repo.dependencies.isNone THEN 0 ELSE Len(repo.dependencies.v)

PathsUnder(folder) == {folder \o "/" \o DirOrder[i] : i \in DOMAIN DirOrder}

IsPre(e) == e.cls = UGR /\ e.subfolder \in PathsUnder("unpackaged/pre")

IsPost(e) == e.cls = UGR /\ e.subfolder \in PathsUnder("unpackaged/post")

IsSrcOrPackage(e) == (e.cls = UGR /\ e.subfolder = "src") \/ e = dep.managed_dependency

FlattenedDynamic == op = "flatten" /\ dep.cls = DYN /\ ret.raised = NONE

\* C1: a successful flatten of a GitHubDynamicDependency returns the declared
\* dependencies of the remote project in declared order, then the
\* unpackaged/pre elements, then the one src or managed package element (if
\* any), then the unpackaged/post elements: no pre element after the src or
\* package element, no post element before it.
C1_FlattenOrder ==
    FlattenedDynamic =>
        LET l == ret.list
            tail == (Declared + 1)..Len(l)
            managed == repo.namespace # NONE /\ dep.unmanaged # "True"
        IN /\ Len(l) >= Declared
           /\ \A i \in 1..Declared : l[i] = parse_dependency(repo.dependencies.v[i])
           /\ \A i \in tail : IsPre(l[i]) \/ IsSrcOrPackage(l[i]) \/ IsPost(l[i])
           /\ Cardinality({i \in tail : IsSrcOrPackage(l[i])})
                  = IF managed \/ repo.src.names # <<>> THEN 1 ELSE 0
           /\ \A i \in tail : \A j \in tail :
                  i < j => /\ ~(IsSrcOrPackage(l[i]) /\ IsPre(l[j]))
                           /\ ~(IsPost(l[i]) /\ (IsPre(l[j]) \/ IsSrcOrPackage(l[j])))

C1_Witness ==
    /\ FlattenedDynamic
    /\ Declared >= 1
    /\ \E i \in DOMAIN ret.list : IsPre(ret.list[i])
    /\ \E i \in DOMAIN ret.list : IsSrcOrPackage(ret.list[i])
    /\ \E i \in DOMAIN ret.list : IsPost(ret.list[i])

\* C2 as stated: every element of the list flatten returns is a static
\* dependency, is_resolved and is_flattened, also when the remote project
\* declares a dynamic GitHub dependency.
C2_AllStatic ==
    FlattenedDynamic =>
        \A i \in DOMAIN ret.list : is_resolved(ret.list[i]) /\ is_flattened(ret.list[i])

\* C2 amended: the declared dependencies are returned as parse_dependency
\* parses them, a declared dynamic GitHub dependency as an unresolved,
\* unflattened dynamic dependency; every element after them is static.
C2_GeneratedStatic ==
    FlattenedDynamic =>
        /\ Len(ret.list) >= Declared
        /\ \A i \in 1..Declared :
               /\ ret.list[i] = parse_dependency(repo.dependencies.v[i])
               /\ Given(repo.dependencies.v[i], "github")
                    /\ ~Given(repo.dependencies.v[i], "ref")
                    /\ ~Given(repo.dependencies.v[i], "namespace")
                  => ret.list[i].cls = DYN /\ ~is_resolved(ret.list[i])
                     /\ ~is_flattened(ret.list[i])
        /\ \A i \in (Declared + 1)..Len(ret.list) :
               ret.list[i].cls \in StaticClasses /\ is_resolved(ret.list[i])
               /\ is_flattened(ret.list[i])

C2_Witness ==
    /\ FlattenedDynamic
    /\ \E i \in DOMAIN ret.list : ret.list[i].cls = DYN /\ ret.list[i].ref = NONE
    /\ Len(ret.list) > Declared

\* the order of attempts as the claims state it
ClaimedOrder ==
    <<"PackageNamespaceVersionDependency", "PackageVersionIdDependency",
      "UnmanagedGitHubRefDependency", "UnmanagedZipURLDependency",
      "GitHubDynamicDependency", "GitHubDynamicSubfolderDependency">>

Accepting(d) == {i \in DOMAIN ClaimedOrder : parse_obj(ClaimedOrder[i], d).ok}

\* C3: parse_dependency returns the instance of the first variant, in the order
\* PackageNamespaceVersion, PackageVersionId, UnmanagedGitHubRef,
\* UnmanagedZipURL, GitHubDynamic, GitHubDynamicSubfolder, whose validation
\* accepts the record; the rejections of earlier variants do not end the
\* parse, and the result is None exactly when all six reject the record.
C3_ParseOrder ==
    op = "parse_dependency" =>
        /\ ret.raised = NONE
        /\ (ret.dep = NoDep) <=> (Accepting(dep_dict) = {})
        /\ Accepting(dep_dict) # {} =>
               LET first == CHOOSE i \in Accepting(dep_dict) :
                                \A j \in Accepting(dep_dict) : i <= j
               IN /\ ret.dep.cls = ClaimedOrder[first]
                  /\ ret.dep = parse_obj(ClaimedOrder[first], dep_dict).dep

C3_Witness ==
    /\ op = "parse_dependency"
    /\ ret.dep.cls = SUB
    /\ Cardinality(Accepting(dep_dict)) = 1

ParsedDynamicUnresolved ==
    op = "parse_dependency" /\ ret.dep.cls \in DynamicClasses
    => ret.dep.ref = NONE /\ ~is_resolved(ret.dep)

C6_ParseAll ==
    op = "parse_dependencies" =>
        LET deps == IF deps_arg.isNone THEN <<>> ELSE deps_arg.v
            bad == {i \in DOMAIN deps : Accepting(deps[i]) = {}}
        IN IF bad = {}
           THEN /\ ret.raised = NONE
                /\ Len(ret.list) = Len(deps)
                /\ \A i \in DOMAIN deps :
                       \E j \in Accepting(deps[i]) :
                           ret.list[i] = parse_obj(ClaimedOrder[j], deps[i]).dep
           ELSE /\ ret.raised = "DependencyParseError"
                /\ ret.list = <<>>
                /\ \E i \in bad : ret.culprit = deps[i] /\ \A j \in bad : i <= j

C6_Witness ==
    /\ op = "parse_dependencies"
    /\ ret.raised = "DependencyParseError"
    /\ Len(deps_arg.v) = 3
    /\ Accepting(deps_arg.v[1]) # {}
    /\ ret.culprit = deps_arg.v[2]
    /\ Accepting(deps_arg.v[3]) = {}

\* C7: flatten on a GitHubDynamicDependency or GitHubDynamicSubfolderDependency
\* whose ref is unset raises DependencyResolutionError before any repository
\* collaborator is called.
C7_UnresolvedFlattenFails ==
    op = "flatten" /\ dep.cls \in DynamicClasses /\ ~Truthy(dep.ref)
    => ret.raised = "DependencyResolutionError" /\ calls = <<>> /\ ret.list = <<>>

C7_Witness ==
    /\ op = "flatten" /\ dep.cls = DYN /\ dep.ref = NONE
    /\ repo.pre.names # <<>> /\ Declared >= 1
    /\ ret.raised = "DependencyResolutionError"

\* C8: constructing a GitHubDynamicDependency or GitHubDynamicSubfolderDependency
\* from a record whose ref is not None fails with a validation error; no
\* instance of them has a ref right after its construction.
C8_NoRefAtConstruction ==
    op = "construct" /\ cls_arg \in DynamicClasses
    => /\ dep_dict.ref # NONE => ret.raised = "ValidationError" /\ dep = NoDep
       /\ dep # NoDep => dep.ref = NONE

C8_Witness ==
    /\ op = "construct" /\ cls_arg = DYN
    /\ dep_dict.ref = "" /\ Given(dep_dict, "github")
    /\ ~Given(dep_dict, "namespace_inject") /\ ~Given(dep_dict, "namespace_strip")
    /\ ret.raised = "ValidationError"

\* C9: constructing a GitHubDynamicDependency with unmanaged false or absent and
\* namespace_inject or namespace_strip set fails; every constructed
\* GitHubDynamicDependency with one of them set has unmanaged = True.
C9_NamespaceNeedsUnmanaged ==
    op = "construct" /\ cls_arg = DYN
    => /\ dep_dict.unmanaged \in {NONE, "False"}
            /\ (Truthy(dep_dict.namespace_inject) \/ Truthy(dep_dict.namespace_strip))
          => ret.raised = "ValidationError" /\ dep = NoDep
       /\ dep # NoDep /\ (Truthy(dep.namespace_inject) \/ Truthy(dep.namespace_strip))
          => dep.unmanaged = "True"

C9_Witness ==
    /\ op = "construct" /\ cls_arg = DYN
    /\ Given(dep_dict, "github") /\ ~Given(dep_dict, "ref")
    /\ dep_dict.unmanaged = "False"
    /\ ~Given(dep_dict, "namespace_inject") /\ Given(dep_dict, "namespace_strip")
    /\ ret.raised = "ValidationError"

HasUrl(d) == Truthy(d.github)

HasPair(d) == Truthy(d.repo_owner) /\ Truthy(d.repo_name)

\* the validations of a dynamic class other than that of the repository keys
OtherwiseValid(cls, d) ==
    /\ d.ref = NONE
    /\ cls = SUB => Given(d, "subfolder")
    /\ cls = DYN => ~(~Truthy(d.unmanaged)
                      /\ (Truthy(d.namespace_inject) \/ Truthy(d.namespace_strip)))

\* C10 as stated: a dynamic GitHub dependency is accepted at construction only
\* if its record gives exactly one of the repo URL and the repo_owner,
\* repo_name pair: a record that gives neither, only one half of the pair, or
\* both the URL and the pair is rejected.
C10_ExactlyOne ==
    op = "construct" /\ cls_arg \in DynamicClasses /\ ret.raised = NONE
    => HasUrl(dep_dict) # HasPair(dep_dict)

\* C10 amended: a dynamic GitHub dependency is accepted at construction only if
\* its record gives the repo URL or the whole repo_owner, repo_name pair: one
\* that gives neither, or only one half of the pair, is rejected; one that
\* gives the URL and also the pair is accepted and keeps its URL.
C10_UrlOrPair ==
    op = "construct" /\ cls_arg \in DynamicClasses
    => /\ ret.raised = NONE => HasUrl(dep_dict) \/ HasPair(dep_dict)
       /\ ~HasUrl(dep_dict) /\ ~HasPair(dep_dict) => ret.raised = "ValidationError"
       /\ HasUrl(dep_dict) /\ OtherwiseValid(cls_arg, dep_dict)
          => ret.raised = NONE /\ dep.github = dep_dict.github
       /\ ~HasUrl(dep_dict) /\ HasPair(dep_dict) /\ OtherwiseValid(cls_arg, dep_dict)
          => ret.raised = NONE
             /\ dep.github = GithubUrl(dep_dict.repo_owner, dep_dict.repo_name)

C10_Witness ==
    /\ op = "construct" /\ cls_arg = DYN
    /\ HasUrl(dep_dict) /\ HasPair(dep_dict)
    /\ ret.raised = NONE
    /\ dep.github = URL

\* a variant of the equality that takes the instances of one class for equal
Dependency_eq_by_class(a, b) == a.cls = b.cls

\* BaseModel.__eq__ of the hashable models: two instances are equal when the
\* dictionaries of the fields they carry are equal
Dependency_eq(a, b) == Pop(a, {"cls"}) = Pop(b, {"cls"})

\* the fields of each class in the order of their declaration, those of the
\* base classes first
FieldOrder(cls) ==
    CASE cls = PNV -> <<"namespace", "version">>
      [] cls = PVI -> <<"version_id">>
      [] cls = UGR -> <<"unmanaged", "subfolder", "namespace_inject", "namespace_strip",
                        "repo_owner", "repo_name", "github", "ref">>
      [] cls = ZIP -> <<"unmanaged", "subfolder", "namespace_inject", "namespace_strip",
                        "zip_url">>
      [] cls = DYN -> <<"managed_dependency", "github", "repo_owner", "repo_name", "ref",
                        "unmanaged", "namespace_inject", "namespace_strip", "skip">>
      [] cls = SUB -> <<"managed_dependency", "github", "repo_owner", "repo_name", "ref",
                        "subfolder", "namespace_inject", "namespace_strip">>

\* ", ".join(strs)
RECURSIVE Join(_)
Join(strs) ==
    IF strs = <<>> THEN ""
    ELSE IF Len(strs) = 1 THEN strs[1]
    ELSE strs[1] \o ", " \o Join(Tail(strs))

Quoted(v) == "\"" \o v \o "\""

\* self.json(): the JSON text of the fields the instance carries
RECURSIVE json(_)
json(self) ==
    LET carried == SelectSeq(FieldOrder(self.cls), LAMBDA k : k \in DOMAIN self)
        Value(k) ==
            CASE k = "skip" -> "[" \o Join([i \in DOMAIN self[k] |-> Quoted(self[k][i])])
                               \o "]"
              [] k = "managed_dependency" ->
                    IF self[k] = NoDep THEN "null" ELSE json(self[k])
              [] k = "unmanaged" /\ self[k] \in {"True", "False"} ->
                    IF self[k] = "True" THEN "true" ELSE "false"
              [] OTHER -> IF self[k] = NONE THEN "null" ELSE Quoted(self[k])
    IN "{" \o Join([i \in DOMAIN carried |-> Quoted(carried[i]) \o ": "
                                               \o Value(carried[i])]) \o "}"

\* HashableBaseModel.__hash__: the hash of the class and of the JSON text
HashableBaseModel_hash(self) == <<self.cls, json(self)>>

GitHubClasses == DynamicClasses \cup {UGR}

\* the record that names by its URL the repository dep_dict names by its pair
EquivalentUrlDict ==
    [dep_dict EXCEPT !.github = "https://github.com/" \o dep_dict.repo_owner
                                \o "/" \o dep_dict.repo_name,
                     !.repo_owner = NONE, !.repo_name = NONE]

\* C11: every GitHub dependency that is constructed (the dynamic variants and
\* the unmanaged GitHub ref dependency) has a populated github URL; one built
\* from the repo_owner, repo_name pair has the URL
\* https://github.com/<owner>/<name>, carries the pair no longer, and is equal
\* to the dependency built from the record that gives that URL instead.
C11_PairNormalised ==
    op = "construct" /\ cls_arg \in GitHubClasses /\ ret.raised = NONE
    => /\ Truthy(dep.github)
       /\ ~HasUrl(dep_dict)
          => /\ dep.github = EquivalentUrlDict.github
             /\ "repo_owner" \notin DOMAIN dep /\ "repo_name" \notin DOMAIN dep
             /\ parse_obj(cls_arg, EquivalentUrlDict).ok
             /\ Dependency_eq(dep, parse_obj(cls_arg, EquivalentUrlDict).dep)

\* the part of C11 that stops short of the equality
C11_UrlPopulated ==
    op = "construct" /\ cls_arg \in GitHubClasses /\ ret.raised = NONE
    => /\ Truthy(dep.github)
       /\ ~HasUrl(dep_dict)
          => /\ dep.github = EquivalentUrlDict.github
             /\ "repo_owner" \notin DOMAIN dep /\ "repo_name" \notin DOMAIN dep
             /\ parse_obj(cls_arg, EquivalentUrlDict).ok
             /\ parse_obj(cls_arg, EquivalentUrlDict).dep.github = dep.github

IsSrc(e) == e.cls = UGR /\ e.subfolder = "src"

\* the flatten at hand succeeded in the managed mode: the remote project has
\* a namespace and the dependency is not marked unmanaged
ManagedFlatten ==
    FlattenedDynamic /\ repo.namespace # NONE /\ dep.unmanaged # "True"

\* C12: a managed flatten of a dependency whose managed_dependency is set
\* returns, after the declared dependencies, the managed_dependency exactly
\* once, after every unpackaged/pre element and before every unpackaged/post
\* element, and no src element; no element is a skipped subfolder; every
\* unpackaged/post element has namespace_inject equal to the remote namespace,
\* no namespace_strip, and unmanaged false.
C12_ManagedFlatten ==
    ManagedFlatten /\ dep.managed_dependency # NoDep =>
        LET l == ret.list
            tail == (Declared + 1)..Len(l)
        IN /\ Len(l) >= Declared
           /\ Cardinality({i \in tail : l[i] = dep.managed_dependency}) = 1
           /\ \A i \in tail : ~IsSrc(l[i])
           /\ \A i \in tail : \A j \in tail :
                  /\ IsPre(l[i]) /\ l[j] = dep.managed_dependency => i < j
                  /\ l[i] = dep.managed_dependency /\ IsPost(l[j]) => i < j
           /\ \A i \in tail : l[i].cls = UGR => l[i].subfolder \notin Range(dep.skip)
           /\ \A i \in tail :
                  IsPost(l[i]) => /\ l[i].namespace_inject = repo.namespace
                                  /\ l[i].namespace_strip = NONE
                                  /\ l[i].unmanaged = "False"

C12_Witness ==
    /\ ManagedFlatten
    /\ dep.managed_dependency = ManagedDep
    /\ repo.src.names # <<>>
    /\ repo.pre.names = <<"b", "a">> /\ repo.post.names = <<"d", "c">>
    /\ "unpackaged/post/c" \in Range(dep.skip)
    /\ \E i \in DOMAIN ret.list : IsPre(ret.list[i])
    /\ \E i \in DOMAIN ret.list :
           IsPost(ret.list[i]) /\ ret.list[i].namespace_inject = "ns"

\* the flatten at hand succeeded in the unmanaged mode (the remote project
\* has no namespace, or the dependency is marked unmanaged) on a repository
\* with a src directory
UnmanagedFlattenWithSrc ==
    /\ FlattenedDynamic
    /\ repo.namespace = NONE \/ dep.unmanaged = "True"
    /\ repo.src.found /\ repo.src.names # <<>>

\* C13: a flatten that is not managed, of a repository that has a src
\* directory, returns exactly one src element, which carries the github URL
\* and ref of the dependency and its own namespace_inject and namespace_strip
\* (null when not configured); it returns no package element even when
\* managed_dependency is set; no unpackaged/pre or unpackaged/post element
\* has namespace_inject set.
C13_UnmanagedFlatten ==
    UnmanagedFlattenWithSrc =>
        LET l == ret.list
            tail == (Declared + 1)..Len(l)
        IN /\ Len(l) >= Declared
           /\ Cardinality({i \in tail : IsSrc(l[i])}) = 1
           /\ \A i \in tail :
                  IsSrc(l[i]) => /\ l[i].github = dep.github /\ l[i].ref = dep.ref
                                 /\ l[i].namespace_inject = dep.namespace_inject
                                 /\ l[i].namespace_strip = dep.namespace_strip
           /\ \A i \in tail : l[i].cls = UGR /\ l[i] # dep.managed_dependency
           /\ \A i \in tail :
                  IsPre(l[i]) \/ IsPost(l[i]) => l[i].namespace_inject = NONE

C13_Witness ==
    /\ UnmanagedFlattenWithSrc
    /\ repo.namespace = "ns" /\ dep.unmanaged = "True"
    /\ dep.managed_dependency = ManagedDep
    /\ dep.namespace_inject = "inj" /\ dep.namespace_strip = NONE
    /\ \E i \in DOMAIN ret.list :
           IsSrc(ret.list[i]) /\ ret.list[i].namespace_inject = "inj"
    /\ \E i \in DOMAIN ret.list :
           IsPost(ret.list[i]) /\ ret.list[i].namespace_strip = "ns"

\* C14: the flatten of a resolved dependency in the managed mode (the remote
\* project has a namespace, the dependency is not marked unmanaged) whose
\* managed_dependency is absent raises DependencyResolutionError and returns
\* no list.
C14_ManagedNeedsPackage ==
    /\ op = "flatten" /\ dep.cls = DYN /\ Truthy(dep.ref)
    /\ repo.namespace # NONE /\ dep.unmanaged # "True"
    /\ dep.managed_dependency = NoDep
    => ret.raised = "DependencyResolutionError" /\ ret.list = <<>>

C14_Witness ==
    /\ op = "flatten" /\ dep.cls = DYN /\ Truthy(dep.ref)
    /\ repo.namespace = "ns" /\ dep.unmanaged # "True"
    /\ dep.managed_dependency = NoDep
    /\ Declared >= 1
    /\ NoDep \notin Range(transitive_dependencies(repo.dependencies))
    /\ repo.pre.names # <<>> /\ repo.src.names # <<>>
    /\ calls[Len(calls)] = "directory_contents:unpackaged/pre"
    /\ ret.raised = "DependencyResolutionError"

\* C15: the flatten of a resolved GitHubDynamicSubfolderDependency returns
\* exactly one UnmanagedGitHubRefDependency with the github URL, ref,
\* subfolder, namespace_inject and namespace_strip of the dependency; it calls
\* no collaborator, and the element is static, with nothing left to flatten.
C15_SubfolderFlatten ==
    op = "flatten" /\ dep.cls = SUB /\ Truthy(dep.ref) =>
        /\ ret.raised = NONE
        /\ Len(ret.list) = 1
        /\ ret.list[1].cls = UGR
        /\ ret.list[1].github = dep.github
        /\ ret.list[1].ref = dep.ref
        /\ ret.list[1].subfolder = dep.subfolder
        /\ ret.list[1].namespace_inject = dep.namespace_inject
        /\ ret.list[1].namespace_strip = dep.namespace_strip
        /\ calls = <<>>
        /\ is_flattened(ret.list[1])

C15_Witness ==
    /\ op = "flatten" /\ dep.cls = SUB /\ dep.ref = "r"
    /\ dep.namespace_inject = "inj" /\ dep.namespace_strip = "str"
    /\ repo.pre.names # <<>> /\ repo.dependencies.v # <<>>
    /\ Len(ret.list) = 1
    /\ ret.list[1].subfolder = "sub"

\* C16: a static dependency is resolved and flattened in every state; its
\* flatten returns the list of the dependency alone, and the flatten of the
\* element of that list returns the same list again.
C16_StaticFlatten ==
    dep.cls \in StaticClasses =>
        /\ is_resolved(dep) /\ is_flattened(dep)
        /\ op = "flatten" =>
              /\ ret.raised = NONE
              /\ ret.list = <<dep>>
              /\ is_resolved(ret.list[1]) /\ is_flattened(ret.list[1])
              /\ flatten(ret.list[1], repo).list = ret.list
              /\ calls = <<>>

C16_Witness ==
    /\ op = "flatten" /\ dep.cls = UGR
    /\ repo.namespace = "ns" /\ repo.src.names # <<>>
    /\ ret.list = <<dep>>

\* the beta-encoded token of each version string, as the claims give it
ClaimedToken(v) ==
    CASE v = "1.2 (Beta 3)" -> "1.2b3"
      [] v = "2.0 (Beta 10)" -> "2.0b10"
      [] OTHER -> v

InstalledPNV == op = "install" /\ dep.cls = PNV

InstalledPVI == op = "install" /\ dep.cls = PVI

\* C17: PackageNamespaceVersionDependency.install calls no install
\* collaborator when org.has_minimum_package_version(namespace, token) is true
\* for the beta-encoded token of its version ("1.2 (Beta 3)" gives 1.2b3, a
\* version without Beta is unchanged), and calls install by namespace and
\* version exactly once when it is false.
C17_SkipWhenMinimumInstalled ==
    InstalledPNV =>
        IF has_minimum_package_version(org, dep.namespace, ClaimedToken(dep.version))
        THEN calls = <<>>
        ELSE /\ Len(calls) = 1
             /\ calls[1].fn = "install_package_by_namespace_version"
             /\ calls[1].namespace = dep.namespace

C17_Witness ==
    /\ InstalledPNV
    /\ dep.version = "1.2 (Beta 3)"
    /\ <<"ns", "1.2b3">> \in org.minimum
    /\ <<"ns", "1.2 (Beta 3)">> \notin org.minimum
    /\ calls = <<>>

BetaVersions == {"1.2 (Beta 3)", "2.0 (Beta 10)"}

\* C18 as stated: when a PackageNamespaceVersionDependency with a "Beta N"
\* version is installed, the version handed to the install collaborator is
\* the beta-encoded token (1.2b3 for "1.2 (Beta 3)"), the value the installed
\* check was made against.
C18_InstallsToken ==
    InstalledPNV /\ dep.version \in BetaVersions /\ calls # <<>>
    => calls[1].version = ClaimedToken(dep.version)

\* C18 amended: the installed check is made against the beta-encoded token,
\* but the version handed to the install collaborator is the version string
\* of the dependency, unchanged ("1.2 (Beta 3)").
C18_InstallsVersionString ==
    InstalledPNV /\ dep.version \in BetaVersions /\ calls # <<>>
    => /\ ~has_minimum_package_version(org, dep.namespace, ClaimedToken(dep.version))
       /\ calls[1].version = dep.version
       /\ calls[1].version # ClaimedToken(dep.version)

C18_Witness ==
    /\ InstalledPNV
    /\ dep.version = "1.2 (Beta 3)"
    /\ <<"ns", "1.2 (Beta 3)">> \in org.minimum
    /\ Len(calls) = 1
    /\ calls[1].version = "1.2 (Beta 3)"

\* C19: PackageVersionIdDependency.install calls no install collaborator when
\* its version_id is the id of an installed package record under any
\* namespace of the org, and calls install by version id exactly once, with
\* that version_id, otherwise (an org with no installed packages included).
C19_SkipWhenIdInstalled ==
    InstalledPVI =>
        IF \E ns \in DOMAIN org.installed_packages :
              \E i \in DOMAIN org.installed_packages[ns] :
                  org.installed_packages[ns][i].id = dep.version_id
        THEN calls = <<>>
        ELSE /\ Len(calls) = 1
             /\ calls[1].fn = "install_package_by_version_id"
             /\ calls[1].version_id = dep.version_id

C19_Witness ==
    /\ InstalledPVI
    /\ dep.version_id = "04t2"
    /\ DOMAIN org.installed_packages = {"ns", "other"}
    /\ org.installed_packages["ns"] = <<[id |-> "04t1", version |-> "1.2"]>>
    /\ Len(org.installed_packages["other"]) = 2
    /\ calls = <<>>

\* C20 as stated: the retry_options a caller passes to the install of a
\* package dependency is the value handed to the install collaborator,
\* unchanged, for every value the caller supplies, an empty policy included;
\* the default policy is handed over only when the caller supplies none.
C20_RetryPassedThrough ==
    op = "install" /\ dep.cls \in {PNV, PVI} /\ calls # <<>>
    => calls[1].retry_options =
           IF install_args.retry_options.isNone
           THEN DEFAULT_PACKAGE_RETRY_OPTIONS
           ELSE install_args.retry_options

\* C20 amended: a non-empty retry_options is handed to the install
\* collaborator unchanged; the default policy is handed over when the caller
\* supplies none and also when the caller supplies an empty policy.
C20_RetryDefaultWhenFalsy ==
    op = "install" /\ dep.cls \in {PNV, PVI} /\ calls # <<>>
    => calls[1].retry_options =
           IF install_args.retry_options.isNone \/ install_args.retry_options.v = <<>>
           THEN DEFAULT_PACKAGE_RETRY_OPTIONS
           ELSE install_args.retry_options

C20_Witness ==
    /\ InstalledPVI
    /\ install_args.retry_options = List(<<>>)
    /\ Len(calls) = 1
    /\ calls[1].retry_options = DEFAULT_PACKAGE_RETRY_OPTIONS

InstalledUnmanaged == op = "install" /\ dep.cls \in {UGR, ZIP} /\ Len(calls) = 3

PayloadOptions == calls[2].options

\* C21 as stated: an unmanaged static dependency installed without an
\* explicit unmanaged setting has its namespace injected into the deployed
\* payload if and only if the namespace is not installed in the org, and is
\* deployed raw when the namespace is installed; an explicit unmanaged
\* setting is used as it is, whatever the org.
C21_InjectIffNotInstalled ==
    InstalledUnmanaged =>
        /\ dep.unmanaged = NONE /\ Truthy(dep.namespace_inject)
           => (namespace_injected(PayloadOptions)
               <=> dep.namespace_inject \notin DOMAIN org.installed_packages)
        /\ dep.unmanaged # NONE => PayloadOptions.unmanaged = dep.unmanaged

\* C21 amended: without an explicit unmanaged setting the payload is built
\* with unmanaged true, the metadata deployed raw, when the namespace to
\* inject is not installed in the org or none is configured, and with
\* unmanaged false, the namespace injected, when the namespace is installed;
\* an explicit unmanaged setting is used as it is, whatever the org; the
\* namespace_inject and namespace_strip of the dependency are passed on.
C21_InjectIffInstalled ==
    InstalledUnmanaged =>
        /\ dep.unmanaged = NONE /\ Truthy(dep.namespace_inject)
           => /\ namespace_injected(PayloadOptions)
                 <=> dep.namespace_inject \in DOMAIN org.installed_packages
              /\ PayloadOptions.unmanaged = "True"
                 <=> dep.namespace_inject \notin DOMAIN org.installed_packages
        /\ dep.unmanaged = NONE /\ ~Truthy(dep.namespace_inject)
           => PayloadOptions.unmanaged = "True"
        /\ dep.unmanaged # NONE => PayloadOptions.unmanaged = dep.unmanaged
        /\ PayloadOptions.namespace_inject = dep.namespace_inject
        /\ PayloadOptions.namespace_strip = dep.namespace_strip

C21_Witness ==
    /\ InstalledUnmanaged
    /\ dep.cls = UGR /\ dep.unmanaged = NONE /\ dep.namespace_inject = "ns"
    /\ "ns" \in DOMAIN org.installed_packages
    /\ PayloadOptions.unmanaged = "False"
    /\ namespace_injected(PayloadOptions)

\* the positions of a list at which an instance occurs that is equal to none
\* before it: what a set built from the list keeps
FirstOccurrences(l) ==
    {i \in DOMAIN l : \A j \in 1..(i - 1) : ~Dependency_eq(l[j], l[i])}

UnmanagedFlattenCall ==
    /\ op = "flatten" /\ dep.cls = DYN /\ Truthy(dep.ref)
    /\ repo.namespace = NONE \/ dep.unmanaged = "True"
    /\ NoDep \notin Range(transitive_dependencies(repo.dependencies))

\* C23: the flatten, not managed, of a repository without a src directory at
\* the resolved ref completes without error and returns the declared, pre and
\* post elements and no src element; a src element is in the result if and
\* only if the src directory exists (and has contents).
C23_NoSrcNoError ==
    UnmanagedFlattenCall =>
        /\ ret.raised = NONE
        /\ (\E i \in DOMAIN ret.list : IsSrc(ret.list[i]))
           <=> (repo.src.found /\ repo.src.names # <<>>)
        /\ ~repo.src.found =>
              \A i \in (Declared + 1)..Len(ret.list) :
                  IsPre(ret.list[i]) \/ IsPost(ret.list[i])

\* the elements flatten generated, after the declared dependencies
Generated == SubSeq(ret.list, Declared + 1, Len(ret.list))

\* the paths folder/<name> of the names listed in dir, in lexicographic order
\* of the names, without those that are elements of the skip list
ExpectedPaths(folder, dir) ==
    LET Kept(n) == n \in Range(dir.names) /\ (folder \o "/" \o n) \notin Range(dep.skip)
        names == SelectSeq(DirOrder, Kept)
    IN [i \in DOMAIN names |-> folder \o "/" \o names[i]]

Subfolders(elements) == [i \in DOMAIN elements |-> elements[i].subfolder]

\* C24: the unpackaged/pre (unpackaged/post) part of a flatten result is the
\* lexicographically sorted sequence of the subfolder names of the directory
\* whose path unpackaged/pre/<name> (unpackaged/post/<name>) is not an element
\* of the skip list, one UnmanagedGitHubRefDependency per name, with the
\* github URL and ref of the dependency; a skip entry that is a prefix of the
\* path or the bare name excludes nothing.
C24_SortedExactSkip ==
    FlattenedDynamic =>
        /\ Len(ret.list) >= Declared
        /\ Subfolders(SelectSeq(Generated, IsPre))
              = ExpectedPaths("unpackaged/pre", repo.pre)
        /\ Subfolders(SelectSeq(Generated, IsPost))
              = ExpectedPaths("unpackaged/post", repo.post)
        /\ \A i \in DOMAIN Generated :
              IsPre(Generated[i]) \/ IsPost(Generated[i])
              => /\ Generated[i].cls = UGR
                 /\ Generated[i].github = dep.github
                 /\ Generated[i].ref = dep.ref

C24_Witness ==
    /\ FlattenedDynamic
    /\ dep.skip = <<"a", "unpackaged/post">>
    /\ repo.pre.names = <<"b", "a">> /\ repo.post.names = <<"d", "c">>
    /\ Subfolders(SelectSeq(Generated, IsPre)) = <<"unpackaged/pre/a", "unpackaged/pre/b">>
    /\ Subfolders(SelectSeq(Generated, IsPost))
          = <<"unpackaged/post/c", "unpackaged/post/d">>

\* C25: in every flatten result each element generated from unpackaged/pre
\* has no namespace_inject, no namespace_strip and unmanaged true, whatever
\* the remote namespace and the managed decision; each element generated from
\* unpackaged/post has namespace_inject (the remote namespace) exactly when
\* the flatten is managed, namespace_strip (the remote namespace) exactly when
\* it is not managed and the remote project declares a namespace, never both.
C25_NamespaceOptions ==
    FlattenedDynamic =>
        LET managed == repo.namespace # NONE /\ dep.unmanaged # "True"
        IN /\ Len(ret.list) >= Declared
           /\ \A i \in DOMAIN Generated :
                  IsPre(Generated[i])
                  => /\ Generated[i].namespace_inject = NONE
                     /\ Generated[i].namespace_strip = NONE
                     /\ Generated[i].unmanaged = "True"
           /\ \A i \in DOMAIN Generated :
                  IsPost(Generated[i])
                  => /\ Generated[i].namespace_inject
                           = IF managed THEN repo.namespace ELSE NONE
                     /\ Generated[i].namespace_strip
                           = IF ~managed THEN repo.namespace ELSE NONE
                     /\ Generated[i].namespace_inject = NONE
                           \/ Generated[i].namespace_strip = NONE

C25_Witness ==
    /\ FlattenedDynamic
    /\ repo.namespace = "ns" /\ dep.unmanaged = "True"
    /\ \E i \in DOMAIN Generated : IsPre(Generated[i])
    /\ \E i \in DOMAIN Generated :
           /\ IsPost(Generated[i])
           /\ Generated[i].namespace_strip = "ns"
           /\ Generated[i].namespace_inject = NONE

\* the declared record that no class accepts
BadRecord == [EmptyDict EXCEPT !.subfolder = "sub"]

\* C26: when a record among the declared dependencies of the remote project
\* is accepted by no class, the flatten of a GitHubDynamicDependency raises
\* DependencyResolutionError and returns no list, wherever the record stands
\* among the declared ones and whatever unpackaged/pre, src and
\* unpackaged/post hold; the directories are not even read.
C26_BadRecordFails ==
    op = "flatten" /\ dep.cls = DYN /\ BadRecord \in Range(repo.dependencies.v)
    => /\ ret.raised = "DependencyResolutionError"
       /\ ret.list = <<>>
       /\ \A i \in DOMAIN calls :
              calls[i] \in {"get_repo", "get_remote_project_config", "get_package_data"}

C26_Witness ==
    /\ op = "flatten" /\ dep.cls = DYN /\ Truthy(dep.ref)
    /\ Declared = 2
    /\ repo.dependencies.v[1] # BadRecord /\ repo.dependencies.v[2] = BadRecord
    /\ repo.pre.names # <<>> /\ repo.src.names # <<>> /\ repo.post.names # <<>>
    /\ ret.raised = "DependencyResolutionError"
    /\ Len(calls) = 3

\* the directory is missing at the ref, or is there and empty
NothingIn(dir) == ~dir.found \/ dir.names = <<>>

\* C27: when unpackaged/pre (unpackaged/post) does not exist at the resolved
\* ref, or exists and is empty, that part of the flatten result is the empty
\* list, every generated element belonging to the other parts, and flatten
\* does not fail for it: it raises what it raises against the same
\* repository with the directory filled.
C27_MissingFolderIsEmpty ==
    op = "flatten" /\ dep.cls = DYN /\ Truthy(dep.ref) =>
        /\ NothingIn(repo.pre)
           => /\ ret.raised = flatten(dep, [repo EXCEPT !.pre = Dir(<<"a">>)]).raised
              /\ ret.raised = NONE
                 => /\ Len(ret.list) >= Declared
                    /\ \A i \in DOMAIN Generated :
                           IsSrcOrPackage(Generated[i]) \/ IsPost(Generated[i])
        /\ NothingIn(repo.post)
           => /\ ret.raised = flatten(dep, [repo EXCEPT !.post = Dir(<<"c">>)]).raised
              /\ ret.raised = NONE
                 => /\ Len(ret.list) >= Declared
                    /\ \A i \in DOMAIN Generated :
                           IsPre(Generated[i]) \/ IsSrcOrPackage(Generated[i])

C27_Witness ==
    /\ FlattenedDynamic
    /\ ~repo.pre.found /\ repo.post.found /\ repo.post.names = <<>>
    /\ repo.src.names # <<>>
    /\ Declared = 1
    /\ Len(ret.list) = 2
    /\ IsSrc(ret.list[2])

\* the number of src or package elements flatten generates
MidCount ==
    IF repo.namespace # NONE /\ dep.unmanaged # "True" THEN 1
    ELSE IF repo.src.names # <<>> THEN 1 ELSE 0

\* C28: flatten removes no duplicates.  Every declared record is in the
\* result at its own position, a record declared twice twice, and every
\* element flatten generates from the repository is in the result also when
\* a declared dependency is equal to it: the result has one element per
\* declared record, per kept unpackaged/pre subfolder, per src or package,
\* and per kept unpackaged/post subfolder, in that order.
C28_NoDeduplication ==
    FlattenedDynamic =>
        /\ Len(ret.list) = Declared + Len(ExpectedPaths("unpackaged/pre", repo.pre))
                             + MidCount + Len(ExpectedPaths("unpackaged/post", repo.post))
        /\ \A i \in 1..Declared :
               ret.list[i] = parse_dependency(repo.dependencies.v[i])
        /\ Subfolders(SelectSeq(Generated, IsPre))
               = ExpectedPaths("unpackaged/pre", repo.pre)
        /\ Subfolders(SelectSeq(Generated, IsPost))
               = ExpectedPaths("unpackaged/post", repo.post)

C28_Witness ==
    /\ FlattenedDynamic
    /\ Declared = 2
    /\ repo.dependencies.v[1] = repo.dependencies.v[2]
    /\ Len(ret.list) >= 3
    /\ IsPre(ret.list[1])
    /\ Dependency_eq(ret.list[1], ret.list[2])
    /\ Dependency_eq(ret.list[1], ret.list[3])
    /\ HashableBaseModel_hash(ret.list[1]) = HashableBaseModel_hash(ret.list[3])

\* a second flatten of the dependency at hand, against the same repository,
\* ends as the first did
SecondFlattenSame ==
    op = "flatten" =>
        /\ flatten(dep, repo).raised = ret.raised
        /\ flatten(dep, repo).list = ret.list
        /\ receiver_after_flatten(dep, repo) = dep

C30_InstallIdempotent ==
    /\ [](op = "install_again" => calls = <<>>)
    /\ [][op = "install_again" /\ op' = "install_again" => org' = org]_vars

C30_Witness ==
    /\ op = "install_again"
    /\ dep.cls = PVI /\ dep.version_id = "04t3"
    /\ DOMAIN org.installed_packages = {"ns", "other"}
    /\ \E i \in DOMAIN org.installed_packages["other"] :
           org.installed_packages["other"][i].id = "04t3"
    /\ calls = <<>>

====
